---- MODULE Spec2Model ----
(***************************************************************************)
(* promiseFor / pipeFor: the result-pair wrapper and the chained pipeline. *)
(*                                                                         *)
(* The pipeline part models class Pipeline of pipe.ts in its latest        *)
(* revision (src/unnamed/part_004, the one that tags errors with           *)
(* stepInfo), normalizeError of src/src/error.ts (lines 200-235) and       *)
(* promiseFor of src/src/promiseFor.ts (lines 174-228).                    *)
(*                                                                         *)
(* JavaScript values are strings ("null", "undefined", "0", "1", ...),     *)
(* raised values and error descriptors are records.  Every await is a      *)
(* separate action: the part of an async function before its first await   *)
(* belongs to the action of the call, the part after an await to the       *)
(* action that resumes it.                                                 *)
(***************************************************************************)
EXTENDS Integers, Sequences, FiniteSets, TLC

\* ------------------------------------------------------------------ bounds
MaxStages == 3      \* stages (pipeFor root + chained steps) per run
MaxExec == 2        \* execute() calls per run
MaxCalls == 2       \* promiseFor calls per run
MaxTwoStages == 4   \* stages of the chains run side by side
MaxChains == 2      \* pipeFor chains run side by side

\* --------------------------------------------------------------- JS values
Null == "null"
Undefined == "undefined"

\* x is one of JavaScript's falsy values (of the ones the model uses)
Falsy(x) == x \in {Null, Undefined, "", "0", "false"}

\* a || b
Or(a, b) == IF Falsy(a) THEN b ELSE a

\* values a producer may resolve to
InitialValues == {"1", Null, Undefined}

\* the error side of a pair when there is no error (JavaScript null)
NoError == [isNull |-> TRUE]

\* `if (error)`: a descriptor is an object, hence truthy; null is not
Truthy(error) == error # NoError

\* ----------------------------------------------------------- raised values
\* A raised value: isError is `err instanceof Error`, str is String(err),
\* and convertible says whether String(err) yields a string at all.
\* new Error(message)
NewError(msg) ==
    [isError |-> TRUE, convertible |-> TRUE, str |-> "Error: " \o msg,
     message |-> msg,
     name |-> "Error", stack |-> "stack", respStatus |-> Undefined,
     status |-> Undefined, respUrl |-> Undefined, url |-> Undefined,
     method |-> Undefined, code |-> Undefined, responseData |-> Undefined]

\* a raised value that is not an Error and whose String() is s: the string
\* s itself, the number 42 for "42", null for "null", undefined for
\* "undefined", a plain object for "[object Object]"
NonError(s) ==
    [isError |-> FALSE, convertible |-> TRUE, str |-> s,
     message |-> Undefined,
     name |-> Undefined, stack |-> Undefined, respStatus |-> Undefined,
     status |-> Undefined, respUrl |-> Undefined, url |-> Undefined,
     method |-> Undefined, code |-> Undefined, responseData |-> Undefined]

\* a raised object that has no toString and no valueOf, such as
\* Object.create(null): String(err) throws a TypeError
NullPrototypeObject == [NonError("") EXCEPT !.convertible = FALSE]

\* the TypeError String(err) throws for such an object
StringTypeError ==
    [NewError("Cannot convert object to primitive value")
        EXCEPT !.name = "TypeError",
               !.str = "TypeError: Cannot convert object to primitive value"]

\* a call that ended by throwing e instead of returning
Thrown(e) == [thrown |-> e]
IsThrown(r) == "thrown" \in DOMAIN r

\* new HTTPError(message, status, url)
NewHTTPError(msg, status, url) ==
    [NewError(msg) EXCEPT !.name = "HTTPError", !.status = status,
                          !.url = url]

\* new HTTPError(message, status, url, responseData)
NewHTTPErrorData(msg, status, url, responseData) ==
    [NewHTTPError(msg, status, url) EXCEPT !.responseData = responseData]

\* no stepDetails argument
NoStepDetails == [absent |-> TRUE]

\* (Mutant: a raised value that is not an Error loses its text, as in the
\* first revision: message 'Unknown error', name 'Unknown'.)
normalizeError_firstRevision(err, context, stepDetails) ==
    LET normalized ==
          IF err.isError
          THEN [message |-> Or(err.message, "Unknown error"),
                name |-> Or(err.name, "Error"),
                stack |-> Or(err.stack, Null),
                status |-> Or(Or(err.respStatus, err.status), Null),
                url |-> Or(Or(err.respUrl, err.url), Null),
                method |-> Or(err.method, Null),
                code |-> Or(err.code, Null),
                responseData |-> Or(err.responseData, Null),
                context |-> context]
          ELSE [message |-> "Unknown error",
                name |-> "Unknown",
                stack |-> Null, status |-> Null, url |-> Null,
                method |-> Null, code |-> Null, responseData |-> Null,
                context |-> context]
    IN IF stepDetails # NoStepDetails
       THEN [stepInfo |-> stepDetails] @@ normalized
       ELSE normalized

\* (Mutant: responseData is not copied, as in the revisions of
\* normalizeError before the field was added.)
normalizeError_noResponseData(err, context, stepDetails) ==
    LET normalized ==
          IF err.isError
          THEN [message |-> Or(err.message, "Unknown error"),
                name |-> Or(err.name, "Error"),
                stack |-> Or(err.stack, Null),
                status |-> Or(Or(err.respStatus, err.status), Null),
                url |-> Or(Or(err.respUrl, err.url), Null),
                method |-> Or(err.method, Null),
                code |-> Or(err.code, Null),
                responseData |-> Null,
                context |-> context]
          ELSE [message |-> Or(err.str, "Unknown error"),
                name |-> "UnknownError",
                stack |-> Null, status |-> Null, url |-> Null,
                method |-> Null, code |-> Null, responseData |-> Null,
                context |-> context]
    IN IF stepDetails # NoStepDetails
       THEN [stepInfo |-> stepDetails] @@ normalized
       ELSE normalized

\* normalizeError(err, context, stepDetails): the descriptor, or the
\* TypeError that `String(err)` throws on the way (nothing catches it
\* inside normalizeError)
normalizeError(err, context, stepDetails) ==
    IF ~err.isError /\ ~err.convertible
    THEN Thrown(StringTypeError)
    ELSE
    LET normalized ==
          IF err.isError
          THEN [message |-> Or(err.message, "Unknown error"),
                name |-> Or(err.name, "Error"),
                stack |-> Or(err.stack, Null),
                status |-> Or(Or(err.respStatus, err.status), Null),
                url |-> Or(Or(err.respUrl, err.url), Null),
                method |-> Or(err.method, Null),
                code |-> Or(err.code, Null),
                responseData |-> Or(err.responseData, Null),
                context |-> context]
          ELSE [message |-> Or(err.str, "Unknown error"),
                name |-> "UnknownError",
                stack |-> Null, status |-> Null, url |-> Null,
                method |-> Null, code |-> Null, responseData |-> Null,
                context |-> context]
    IN IF stepDetails # NoStepDetails
       THEN [stepInfo |-> stepDetails] @@ normalized
       ELSE normalized

\* ---------------------------------------------------------------- promises
Pending == [state |-> "pending"]
Fulfilled(pair) == [state |-> "fulfilled", pair |-> pair]
Rejected(reason) == [state |-> "rejected", reason |-> reason]

\* `return [null, normalizeError(err, ...)]` inside a catch block of an
\* async function: the promise is fulfilled with the pair, or rejected
\* with what normalizeError threw
CatchReturn(d) ==
    IF IsThrown(d) THEN Rejected(d.thrown) ELSE Fulfilled(<<Null, d>>)

\* what an awaited promise settles to
Resolve(v) == [kind |-> "resolve", val |-> v]
Reject(e) == [kind |-> "reject", err |-> e]


\* ------------------------------------------------------- user functions
\* The functions a caller hands to transform, pipe and promiseFor.  The
\* engine never inspects a function, it only calls it, so which function a
\* step holds is drawn when the step calls it.
NotCalled == "notCalled"
Fns == {"inc", "dbl", "retNull", "retUndefined", "throwError", "rejectString"}

NumRange == 0..(2 ^ (MaxStages + 1))
IsNum(v) == \E n \in NumRange : ToString(n) = v
Num(v) == CHOOSE n \in NumRange : ToString(n) = v

\* what calling f(v) does: sync = TRUE is a synchronous throw, otherwise
\* the outcome of awaiting the returned value
ApplyFn(f, v) ==
    CASE f = "inc" ->
           [sync |-> FALSE,
            outcome |-> Resolve(IF IsNum(v) THEN ToString(Num(v) + 1) ELSE "NaN")]
      [] f = "dbl" ->
           [sync |-> FALSE,
            outcome |-> Resolve(IF IsNum(v) THEN ToString(2 * Num(v)) ELSE "NaN")]
      [] f = "retNull" -> [sync |-> FALSE, outcome |-> Resolve(Null)]
      [] f = "retUndefined" -> [sync |-> FALSE, outcome |-> Resolve(Undefined)]
      [] f = "throwError" -> [sync |-> TRUE, outcome |-> Reject(NewError("bad"))]
      [] f = "rejectString" -> [sync |-> FALSE, outcome |-> Reject(NonError("oops"))]
      [] f = "retZero" -> [sync |-> FALSE, outcome |-> Resolve("0")]
      [] f = "retFalse" -> [sync |-> FALSE, outcome |-> Resolve("false")]
      [] f = "retEmpty" -> [sync |-> FALSE, outcome |-> Resolve("")]
      [] f = "throwObject" ->
           [sync |-> TRUE, outcome |-> Reject(NullPrototypeObject)]
      [] f = "rejectObject" ->
           [sync |-> FALSE, outcome |-> Reject(NullPrototypeObject)]
      [] f = "never" ->   \* returns a promise that never settles
           [sync |-> FALSE, outcome |-> [kind |-> "none"]]

\* ------------------------------------------------------------ the pipeline
VARIABLES
    stages,       \* the Pipeline objects, in creation order: parent, context, steps
    pc,           \* per stage: where the async function computing its promise is
    promise,      \* per stage: the state of this.promise
    fnCalls,      \* per stage: how often its producer factory / step function was called
    fnOf,         \* per stage: the step function it called
    arg,          \* per stage: the value the step function was called with
    awaited,      \* per stage: what the producer / the step function's promise settled to
    execCalls,    \* execute() calls made so far, on any stage
    awaiters,     \* per stage: execute() calls whose caller has not resumed yet
    execResults,  \* per stage: what execute() has returned to its callers
    pf,           \* the promiseFor call in progress
    ne            \* a raised value on its way through normalizeError and an adapter

pipeVars == <<stages, pc, promise, fnCalls, fnOf, arg, awaited,
              execCalls, awaiters, execResults>>
vars == <<stages, pc, promise, fnCalls, fnOf, arg, awaited,
          execCalls, awaiters, execResults, pf, ne>>

StageIds == 1..Len(stages)
NotYet == [kind |-> "none"]

\* contexts a caller passes (Undefined: the argument is omitted)
PipelineContexts == {Undefined, "Main pipeline"}
StepContexts == {Undefined, "Custom step"}

\* the `initial` argument of the Pipeline constructor
PromiseInitial == [kind |-> "promise"]
FactoryInitial(s) == [kind |-> "factory", owner |-> s]
InternalInitial == [kind |-> "internal"]

\* wrapInitial: `typeof initial === 'function' ? initial() : initial` calls
\* the caller's factory when initial is one; calls is fnCalls so far
wrapInitialCalls(calls, initial) ==
    IF initial.kind = "factory"
    THEN [calls EXCEPT ![initial.owner] = @ + 1]
    ELSE calls

\* (Mutant: the catch calls normalizeError(err, context) without the
\* initialization stepDetails, as the earlier revision in src/pipe.ts did.)
wrapInitialAfterAwait_noStepInfo(context, o) ==
    LET stepDetails == [index |-> -1, type |-> "initialization",
                        pipelineContext |-> context]
    IN IF o.kind = "resolve"
       THEN IF o.val = Undefined
            THEN Fulfilled(<<Null, normalizeError(
                     NewError("Initial value resolved to undefined."),
                     context, stepDetails)>>)
            ELSE Fulfilled(<<o.val, NoError>>)
       ELSE Fulfilled(<<Null, normalizeError(o.err, context, NoStepDetails)>>)

\* wrapInitial after `await`: o is what the producer settled to (a
\* synchronous throw of the factory lands in the same catch)
wrapInitialAfterAwait(context, o) ==
    LET stepDetails == [index |-> -1, type |-> "initialization",
                        pipelineContext |-> context]
    IN IF o.kind = "resolve"
       THEN IF o.val = Undefined
            THEN Fulfilled(<<Null, normalizeError(
                     NewError("Initial value resolved to undefined."),
                     context, stepDetails)>>)
            ELSE Fulfilled(<<o.val, NoError>>)
       ELSE CatchReturn(normalizeError(o.err, context, stepDetails))

\* (Mutant: pipelineContext is the step's own context instead of the
\* context of the stage it was chained on.)
stepDetailsOf_ownContext(st) ==
    [index |-> st.stepIndex, type |-> st.type,
     pipelineContext |-> st.context]

\* { index: stepIndex, type, pipelineContext: currentPipelineSegmentContext }
stepDetailsOf(st) ==
    [index |-> st.stepIndex, type |-> st.type,
     pipelineContext |-> st.pipelineContext]

Settle(p) == [do |-> "settle", promise |-> p]
Call(v) == [do |-> "call", arg |-> v]

\* (Mutant: the `if (error)` propagation is missing.)
transformAfterAwait_noPropagation(st, par) ==
    IF par.state = "rejected"
    THEN Settle(Rejected(par.reason))
    ELSE LET value == par.pair[1]
         IN IF value = Null
            THEN Settle(Fulfilled(<<Null, normalizeError(
                     NewError("Transformation input was null."),
                     st.context, stepDetailsOf(st))>>))
            ELSE Call(value)

\* (Mutant: the input guard is `if (!value)` instead of `value === null`.)
transformAfterAwait_falsyGuard(st, par) ==
    IF par.state = "rejected"
    THEN Settle(Rejected(par.reason))
    ELSE LET value == par.pair[1]
             error == par.pair[2]
         IN IF Truthy(error)
            THEN Settle(Fulfilled(<<Null, error>>))
            ELSE IF Falsy(value)
            THEN Settle(Fulfilled(<<Null, normalizeError(
                     NewError("Transformation input was null."),
                     st.context, stepDetailsOf(st))>>))
            ELSE Call(value)

\* transform's async function from `await this.promise` to the call of fn;
\* par is the settled promise of the stage the step was chained on
transformAfterAwait(st, par) ==
    IF par.state = "rejected"
    THEN Settle(Rejected(par.reason))
    ELSE LET value == par.pair[1]
             error == par.pair[2]
         IN IF Truthy(error)
            THEN Settle(Fulfilled(<<Null, error>>))
            ELSE IF value = Null
            THEN Settle(Fulfilled(<<Null, normalizeError(
                     NewError("Transformation input was null."),
                     st.context, stepDetailsOf(st))>>))
            ELSE Call(value)

\* (Mutant: no try/catch around `await fn(value)`.)
transformAfterFn_noCatch(st, o) ==
    IF o.kind = "resolve"
    THEN IF o.val = Undefined
         THEN Fulfilled(<<Null, normalizeError(
                  NewError("Transformation resulted in undefined"),
                  st.context, stepDetailsOf(st))>>)
         ELSE Fulfilled(<<o.val, NoError>>)
    ELSE Rejected(o.err)

\* transform's async function after `await fn(value)`
transformAfterFn(st, o) ==
    IF o.kind = "resolve"
    THEN IF o.val = Undefined
         THEN Fulfilled(<<Null, normalizeError(
                  NewError("Transformation resulted in undefined"),
                  st.context, stepDetailsOf(st))>>)
         ELSE Fulfilled(<<o.val, NoError>>)
    ELSE CatchReturn(normalizeError(o.err, st.context, stepDetailsOf(st)))

\* (Mutant: an upstream error is wrapped again, as the first revision of
\* pipe.ts did: normalizeError(new Error(`Pipe step i failed`), error.context).)
pipeAfterAwait_rewrap(st, par) ==
    IF par.state = "rejected"
    THEN Settle(Rejected(par.reason))
    ELSE LET value == par.pair[1]
             error == par.pair[2]
         IN IF Truthy(error)
            THEN Settle(Fulfilled(<<Null, normalizeError(
                     NewError("Pipe step " \o ToString(st.stepIndex) \o " failed"),
                     error.context, NoStepDetails)>>))
            ELSE IF value = Null \/ value = Undefined
            THEN Settle(Fulfilled(<<Null, normalizeError(
                     NewError("Pipe input was null or undefined, but NonNullable input was expected."),
                     st.context, stepDetailsOf(st))>>))
            ELSE Call(value)

\* (Mutant: fn is called with the whole pair instead of its value side.)
pipeAfterAwait_passesPair(st, par) ==
    IF par.state = "rejected"
    THEN Settle(Rejected(par.reason))
    ELSE LET value == par.pair[1]
             error == par.pair[2]
         IN IF Truthy(error)
            THEN Settle(Fulfilled(<<Null, error>>))
            ELSE IF value = Null \/ value = Undefined
            THEN Settle(Fulfilled(<<Null, normalizeError(
                     NewError("Pipe input was null or undefined, but NonNullable input was expected."),
                     st.context, stepDetailsOf(st))>>))
            ELSE Call("[object Array]")

\* (Mutant: the input guard tests `value === null` only, as transform's does.)
pipeAfterAwait_nullOnly(st, par) ==
    IF par.state = "rejected"
    THEN Settle(Rejected(par.reason))
    ELSE LET value == par.pair[1]
             error == par.pair[2]
         IN IF Truthy(error)
            THEN Settle(Fulfilled(<<Null, error>>))
            ELSE IF value = Null
            THEN Settle(Fulfilled(<<Null, normalizeError(
                     NewError("Pipe input was null or undefined, but NonNullable input was expected."),
                     st.context, stepDetailsOf(st))>>))
            ELSE Call(value)

\* pipe's async function from `await this.promise` to the call of fn
pipeAfterAwait(st, par) ==
    IF par.state = "rejected"
    THEN Settle(Rejected(par.reason))
    ELSE LET value == par.pair[1]
             error == par.pair[2]
         IN IF Truthy(error)
            THEN Settle(Fulfilled(<<Null, error>>))
            ELSE IF value = Null \/ value = Undefined
            THEN Settle(Fulfilled(<<Null, normalizeError(
                     NewError("Pipe input was null or undefined, but NonNullable input was expected."),
                     st.context, stepDetailsOf(st))>>))
            ELSE Call(value)

\* (Mutant: an undefined result is an error, as it is in transform.)
pipeAfterFn_undefinedIsError(st, o) ==
    IF o.kind = "resolve"
    THEN IF o.val = Undefined
         THEN Fulfilled(<<Null, normalizeError(
                  NewError("Pipe resulted in undefined"),
                  st.context, stepDetailsOf(st))>>)
         ELSE Fulfilled(<<o.val, NoError>>)
    ELSE Fulfilled(<<Null, normalizeError(o.err, st.context, stepDetailsOf(st))>>)

\* pipe's async function after `await fn(value)`
pipeAfterFn(st, o) ==
    IF o.kind = "resolve"
    THEN Fulfilled(<<o.val, NoError>>)
    ELSE CatchReturn(normalizeError(o.err, st.context, stepDetailsOf(st)))

AfterAwait(st, par) ==
    IF st.type = "transform" THEN transformAfterAwait(st, par)
    ELSE pipeAfterAwait(st, par)

AfterFn(st, o) ==
    IF st.type = "transform" THEN transformAfterFn(st, o)
    ELSE pipeAfterFn(st, o)

\* `await this.promise` inside a step: `this` is the stage the step was
\* chained on.  (Mutant: the step awaits the root of its lineage.)
awaitedStage_root(s) == 1

\* (Mutant: the promise to await is kept in one place shared by all
\* pipelines - the stage created last before this one.)
awaitedStage_previous(s) == s - 1

\* (Mutant: the step awaits the promise of the stage it is creating, which
\* only its own completion settles.)
awaitedStage_self(s) == s

awaitedStage(s) == stages[s].parent

\* (Mutant: the chaining call hands the root's own `initial` to the
\* constructor of the new stage, which then calls the factory again.)
derivedInitial_source(p) == stages[1].initial

\* the `initial` a chaining call passes to the constructor of the new
\* stage: () => newPromise.then(([val]) => val), which calls no user function
derivedInitial(p) == InternalInitial


\* (Mutant: execute() runs the stage's step again.)
execute_rerun(s) ==
    [pc |-> IF pc[s] = "done"
            THEN (IF stages[s].parent = 0 THEN "awaitInitial" ELSE "awaitPromise")
            ELSE pc[s],
     awaiters |-> awaiters[s] + 1]

\* execute(): `return this.promise` - the call leaves the stage's own
\* async function where it is and only adds a caller awaiting the promise
execute(s) == [pc |-> pc[s], awaiters |-> awaiters[s] + 1]

\* --------------------------------------------------------------- promiseFor
\* Response objects a producer may resolve to
\* The Response objects a producer may resolve to, by name: one success
\* and failures with no body, a JSON body with a message field, a JSON body
\* with an error field, a JSON body with neither, a plain-text body, and a
\* body that was already consumed.
FailedResponses ==
    {"Response404", "Response400Json", "Response422JsonError",
     "Response409JsonOther", "Response401Text", "Response500Consumed"}
IsResponse(v) == v \in {"Response200"} \cup FailedResponses
ResponseOk(v) == v = "Response200"
ResponseStatus(v) ==
    CASE v = "Response404" -> "404"
      [] v = "Response400Json" -> "400"
      [] v = "Response422JsonError" -> "422"
      [] v = "Response409JsonOther" -> "409"
      [] v = "Response401Text" -> "401"
      [] v = "Response500Consumed" -> "500"
      [] OTHER -> "200"
ResponseUrl(v) ==
    IF v = "Response400Json" THEN "http://127.0.0.1:8000/auth/login"
    ELSE "https://example.com/api"
ResponseStatusText(v) ==
    CASE v = "Response404" -> "Not Found"
      [] v = "Response400Json" -> "Bad Request"
      [] v = "Response422JsonError" -> "Unprocessable Entity"
      [] v = "Response409JsonOther" -> "Conflict"
      [] v = "Response401Text" -> "Unauthorized"
      [] v = "Response500Consumed" -> "Internal Server Error"
      [] OTHER -> "OK"

\* reading the body of a response: the text read, or a failure to read it
BodyRead(text) == [ok |-> TRUE, text |-> text]
BodyUnreadable == [ok |-> FALSE, text |-> ""]
ResponseText(v) ==
    CASE v = "Response400Json" ->
           BodyRead("{\"success\":false,\"message\":\"invalid credentials\"}")
      [] v = "Response422JsonError" ->
           BodyRead("{\"error\":\"Validation failed\"}")
      [] v = "Response409JsonOther" -> BodyRead("{\"code\":\"E409\"}")
      [] v = "Response401Text" -> BodyRead("Login error: Invalid credentials")
      [] v = "Response500Consumed" -> BodyUnreadable
      [] OTHER -> BodyRead("")

\* JSON.parse of a body text: the parsed object (named by its fields), or
\* a failure to parse
NotJson == "SyntaxError"
JsonParse(text) ==
    CASE text = "{\"success\":false,\"message\":\"invalid credentials\"}" ->
           "object {success: false, message: 'invalid credentials'}"
      [] text = "{\"error\":\"Validation failed\"}" ->
           "object {error: 'Validation failed'}"
      [] text = "{\"code\":\"E409\"}" -> "object {code: 'E409'}"
      [] OTHER -> NotJson

\* data.message and data.error of a parsed body
JsonMessage(data) ==
    IF data = "object {success: false, message: 'invalid credentials'}"
    THEN "invalid credentials" ELSE Undefined
JsonError(data) ==
    IF data = "object {error: 'Validation failed'}"
    THEN "Validation failed" ELSE Undefined

\* the second argument of promiseFor: absent, a function, or an options record
AbsentArg == [kind |-> "absent"]
FunctionArg(f) == [kind |-> "function", fn |-> f]
OptionsArg(f, c) == [kind |-> "options", postProcessor |-> f, context |-> c]

PostFns == {"inc", "retNull", "throwError", "rejectString"}
SecondArgs ==
    {AbsentArg} \cup {FunctionArg(f) : f \in PostFns}
        \cup {OptionsArg(f, c) : f \in PostFns \cup {Undefined},
                                 c \in {Undefined, "Custom context"}}
LegacyContexts == {Undefined, "Legacy context"}
PfValues == {"1", Null, Undefined, "Response200", "Response404"}
PfOutcomes == {Resolve(v) : v \in PfValues} \cup {Reject(NewError("Test error"))}

\* (Mutant: the legacy style has no context argument, as in the revision
\* promiseFor(promiseOrFunction, postProcessor).)
promiseForParse_noLegacyContext(second, legacyContext) ==
    LET default == "Error occurred during promise resolution"
    IN IF second.kind # "absent"
       THEN IF second.kind = "function"
            THEN [postProcessor |-> second.fn, context |-> default]
            ELSE [postProcessor |-> second.postProcessor,
                  context |-> Or(second.context, default)]
       ELSE [postProcessor |-> Undefined, context |-> default]

\* (Mutant: a third positional context is honoured beside an options
\* record too, and wins over the record's context.)
promiseForParse_legacyWins(second, legacyContext) ==
    LET default == "Error occurred during promise resolution"
    IN IF second.kind # "absent"
       THEN IF second.kind = "function"
            THEN [postProcessor |-> second.fn,
                  context |-> IF ~Falsy(legacyContext) THEN legacyContext
                              ELSE default]
            ELSE [postProcessor |-> second.postProcessor,
                  context |-> IF ~Falsy(legacyContext) THEN legacyContext
                              ELSE Or(second.context, default)]
       ELSE [postProcessor |-> Undefined,
             context |-> IF ~Falsy(legacyContext) THEN legacyContext
                         ELSE default]

\* promiseFor, "Parse parameters based on API style used"
promiseForParse(second, legacyContext) ==
    LET default == "Error occurred during promise resolution"
    IN IF second.kind # "absent"
       THEN IF second.kind = "function"
            THEN [postProcessor |-> second.fn,
                  context |-> IF ~Falsy(legacyContext) THEN legacyContext
                              ELSE default]
            ELSE [postProcessor |-> second.postProcessor,
                  context |-> Or(second.context, default)]
       ELSE [postProcessor |-> Undefined,
             context |-> IF ~Falsy(legacyContext) THEN legacyContext
                         ELSE default]

\* how the body of the async function promiseFor ends: `return result`
\* fulfils the promise it returned, an error leaving the body rejects it
Return(pair) == [do |-> "return", result |-> pair]
Throw(reason) == [do |-> "throw", reason |-> reason]

\* `result[1] = normalizeError(err, context)` in promiseFor's catch,
\* followed by `return result`: the pair, or what normalizeError threw
CatchResult(d) ==
    IF IsThrown(d) THEN Throw(d.thrown) ELSE Return(<<Null, d>>)

\* (Mutant: the catch normalizes with the fixed context 'Error occurred
\* during promise resolution', as the revision without options did.)
promiseForAfterAwait_defaultContext(postProcessor, context, o) ==
    LET default == "Error occurred during promise resolution"
    IN IF o.kind = "resolve"
       THEN IF IsResponse(o.val) /\ ~ResponseOk(o.val)
            THEN Return(<<Null, normalizeError(
                     NewHTTPError("HTTP error! status: " \o ResponseStatus(o.val),
                                  ResponseStatus(o.val), ResponseUrl(o.val)),
                     default, NoStepDetails)>>)
            ELSE IF ~Falsy(postProcessor)
            THEN Call(o.val)
            ELSE Return(<<o.val, NoError>>)
       ELSE Return(<<Null, normalizeError(o.err, default, NoStepDetails)>>)

\* (Mutant: the post-processor is ignored.)
promiseForAfterAwait_skipsPost(postProcessor, context, o) ==
    IF o.kind = "resolve"
    THEN IF IsResponse(o.val) /\ ~ResponseOk(o.val)
         THEN Return(<<Null, normalizeError(
                  NewHTTPError("HTTP error! status: " \o ResponseStatus(o.val),
                               ResponseStatus(o.val), ResponseUrl(o.val)),
                  context, NoStepDetails)>>)
         ELSE Return(<<o.val, NoError>>)
    ELSE Return(<<Null, normalizeError(o.err, context, NoStepDetails)>>)

\* (Mutant: no try/catch around `await promise`.)
promiseForAfterAwait_noCatch(postProcessor, context, o) ==
    IF o.kind = "resolve"
    THEN IF IsResponse(o.val) /\ ~ResponseOk(o.val)
         THEN Return(<<Null, normalizeError(
                  NewHTTPError("HTTP error! status: " \o ResponseStatus(o.val),
                               ResponseStatus(o.val), ResponseUrl(o.val)),
                  context, NoStepDetails)>>)
         ELSE IF ~Falsy(postProcessor)
         THEN Call(o.val)
         ELSE Return(<<o.val, NoError>>)
    ELSE Throw(o.err)

\* (Mutant: the `instanceof Response && !ok` test is missing.)
promiseForAfterAwait_noResponseCheck(postProcessor, context, o) ==
    IF o.kind = "resolve"
    THEN IF ~Falsy(postProcessor)
         THEN Call(o.val)
         ELSE Return(<<o.val, NoError>>)
    ELSE Return(<<Null, normalizeError(o.err, context, NoStepDetails)>>)

\* promiseFor after `await promise`, up to the call of the post-processor;
\* o is what the producer settled to (a synchronous throw of the factory
\* lands in the same catch)
promiseForAfterAwait(postProcessor, context, o) ==
    IF o.kind = "resolve"
    THEN IF IsResponse(o.val) /\ ~ResponseOk(o.val)
         THEN Return(<<Null, normalizeError(
                  NewHTTPError("HTTP error! status: " \o ResponseStatus(o.val),
                               ResponseStatus(o.val), ResponseUrl(o.val)),
                  context, NoStepDetails)>>)
         ELSE IF ~Falsy(postProcessor)
         THEN Call(o.val)
         ELSE Return(<<o.val, NoError>>)
    ELSE CatchResult(normalizeError(o.err, context, NoStepDetails))

\* (Mutant: the status line is preferred to the body.)
classifyResponse_statusLineFirst(v) ==
    NewHTTPErrorData(ResponseStatusText(v), ResponseStatus(v), ResponseUrl(v),
                     Undefined)

\* The domain-failure classifier for a failed response: the HTTPError to
\* raise.  Its message is the message or error field of a parseable JSON
\* body, else the raw body text, else the status line; the parsed or raw
\* body is kept as responseData; a body that cannot be read gives the
\* status line.
classifyResponse(v) ==
    LET body == ResponseText(v)
        data == JsonParse(body.text)
        statusLine == NewHTTPErrorData(ResponseStatusText(v), ResponseStatus(v),
                                       ResponseUrl(v), Undefined)
    IN IF ~body.ok \/ body.text = ""
       THEN statusLine
       ELSE IF data = NotJson
       THEN NewHTTPErrorData(body.text, ResponseStatus(v), ResponseUrl(v),
                             body.text)
       ELSE NewHTTPErrorData(
                Or(Or(JsonMessage(data), JsonError(data)), body.text),
                ResponseStatus(v), ResponseUrl(v), data)

\* promiseFor after `await promise` with the classifier in place of the
\* fixed `HTTP error! status` message
promiseForAfterAwaitHttp(postProcessor, context, o) ==
    IF o.kind = "resolve"
    THEN IF IsResponse(o.val) /\ ~ResponseOk(o.val)
         THEN Return(<<Null, normalizeError(classifyResponse(o.val),
                                            context, NoStepDetails)>>)
         ELSE IF ~Falsy(postProcessor)
         THEN Call(o.val)
         ELSE Return(<<o.val, NoError>>)
    ELSE CatchResult(normalizeError(o.err, context, NoStepDetails))

\* (Mutant: result[0] already holds resolvedValue when the catch runs.)
promiseForAfterPost_keepsValue(context, resolvedValue, o) ==
    IF o.kind = "resolve"
    THEN Return(<<o.val, NoError>>)
    ELSE Return(<<resolvedValue,
                  normalizeError(o.err, context, NoStepDetails)>>)

\* the context the first revision of promiseFor gave to a failure of the
\* post-processor, caught by a try/catch of its own
PostProcessingContext == "Error occurred during post-processing"

\* (Mutant: a failure of the post-processor is normalized with the fixed
\* post-processing context, as in the first revision.)
promiseForAfterPost_fixedContext(context, resolvedValue, o) ==
    IF o.kind = "resolve"
    THEN Return(<<o.val, NoError>>)
    ELSE CatchResult(normalizeError(o.err, PostProcessingContext,
                                    NoStepDetails))

\* promiseFor after `await postProcessor(resolvedValue)`, to the end of
\* its body
promiseForAfterPost(context, resolvedValue, o) ==
    IF o.kind = "resolve"
    THEN Return(<<o.val, NoError>>)
    ELSE CatchResult(normalizeError(o.err, context, NoStepDetails))

\* the promise promiseFor returned settles as its body ended
promiseForEnd(call, r) ==
    IF r.do = "return"
    THEN [call EXCEPT !.pc = "returned", !.result = r.result]
    ELSE [call EXCEPT !.pc = "rejected"]

PfIdle == [pc |-> "idle", calls |-> 0, second |-> AbsentArg,
           legacyContext |-> Undefined, postProcessor |-> Undefined,
           context |-> Undefined, resolved |-> NotCalled,
           awaited |-> NotYet, result |-> <<Null, NoError>>]

\* ------------------------------------------------- the throwable adapters
\* the stack an Error gets when it is constructed
OwnStack == "stack of the adapter"

\* (Mutant: the name of the descriptor is kept.)
PipelineError_keepsName(errorContext) ==
    [message |-> errorContext.message,
     name |-> errorContext.name,
     errorContext |-> errorContext,
     statusCode |-> Or(errorContext.status, "500"),
     stack |-> IF ~Falsy(errorContext.stack) THEN errorContext.stack
               ELSE OwnStack]

\* new PipelineError(errorContext)
PipelineError(errorContext) ==
    [message |-> errorContext.message,
     name |-> "PipelineError",
     errorContext |-> errorContext,
     statusCode |-> Or(errorContext.status, "500"),
     stack |-> IF ~Falsy(errorContext.stack) THEN errorContext.stack
               ELSE OwnStack]

\* (Mutant: statusCode is always the default.)
PromiseForError_ignoresStatus(errorContext) ==
    [message |-> errorContext.message,
     name |-> "PromiseForError",
     errorContext |-> errorContext,
     statusCode |-> "500",
     stack |-> IF ~Falsy(errorContext.stack) THEN errorContext.stack
               ELSE OwnStack]

\* new PromiseForError(errorContext)
PromiseForError(errorContext) ==
    [message |-> errorContext.message,
     name |-> "PromiseForError",
     errorContext |-> errorContext,
     statusCode |-> Or(errorContext.status, "500"),
     stack |-> IF ~Falsy(errorContext.stack) THEN errorContext.stack
               ELSE OwnStack]

\* an error as an HTTP client raises it: err.response.status,
\* err.response.config.url, err.config.method, err.code
NewClientError(msg, status, url, method, code) ==
    [NewError(msg) EXCEPT !.respStatus = status, !.respUrl = url,
                          !.method = method, !.code = code]

\* the raised values handed to normalizeError
RaisedValues ==
    {NewError("Test error"),
     NewHTTPError("Not Found", "404", "https://example.com/api"),
     NewHTTPError("Network down", "0", "https://example.com/api"),
     NewHTTPErrorData("invalid credentials", "400",
                      "http://127.0.0.1:8000/auth/login",
                      "object {success: false, message: 'invalid credentials'}"),
     NewClientError("Request failed", "503", "/orders", "POST", "ECONNRESET"),
     NonError("string error"),
     NonError("42")}
NormalizeContexts == {"Error context", "Pipeline context"}
StepDetailsArgs ==
    {NoStepDetails,
     [index |-> 2, type |-> "transform",
      pipelineContext |-> "Data transformation pipeline"],
     [index |-> -1, type |-> "initialization",
      pipelineContext |-> "Pipeline initialization"]}

NoDescriptor == [none |-> TRUE]
NeIdle == [pc |-> "idle", raised |-> NonError(""), context |-> "",
           stepDetails |-> NoStepDetails, descriptor |-> NoDescriptor,
           adapter |-> NoDescriptor]

\* ------------------------------------------------------------------- Init
\* A run exercises one entry point: either one pipeFor chain (a tree of
\* stages under one root) or a sequence of promiseFor calls.  The two share
\* no state, so PipeFor and PromiseFor exclude each other in their guards.
Init ==
    /\ stages = <<>>
    /\ pc = <<>>
    /\ promise = <<>>
    /\ fnCalls = <<>>
    /\ fnOf = <<>>
    /\ arg = <<>>
    /\ awaited = <<>>
    /\ execCalls = 0
    /\ awaiters = <<>>
    /\ execResults = <<>>
    /\ pf = PfIdle
    /\ ne = NeIdle

\* a new stage s enters every per-stage variable but pc, promise, fnCalls
NewStageRest ==
    /\ fnOf' = Append(fnOf, NotCalled)
    /\ arg' = Append(arg, NotCalled)
    /\ UNCHANGED execCalls
    /\ awaiters' = Append(awaiters, 0)
    /\ execResults' = Append(execResults, {})

\* pipeFor(initial, context): new Pipeline(initial, context).  The
\* constructor calls wrapInitial, which runs up to its await: a factory is
\* called here, and if it throws the promise is settled by the catch.
PipeFor(isFactory, ctx) ==
    /\ stages = <<>>
    /\ pf = PfIdle
    /\ LET context == IF ctx = Undefined THEN "Pipeline initialization" ELSE ctx
           initial == IF isFactory THEN FactoryInitial(1) ELSE PromiseInitial
       IN /\ stages' = <<[parent |-> 0, type |-> "initialization",
                          context |-> context, contextArg |-> ctx,
                          steps |-> <<>>,
                          stepIndex |-> -1, pipelineContext |-> context,
                          initial |-> initial]>>
          /\ fnCalls' = wrapInitialCalls(<<0>>, initial)
          /\ \E throws \in (IF isFactory THEN BOOLEAN ELSE {FALSE}) :
                IF throws
                THEN /\ pc' = <<"done">>
                     /\ awaited' = <<Reject(NewError("Function error"))>>
                     /\ promise' = <<wrapInitialAfterAwait(context,
                                        Reject(NewError("Function error")))>>
                ELSE /\ pc' = <<"awaitInitial">>
                     /\ awaited' = <<NotYet>>
                     /\ promise' = <<Pending>>
    /\ NewStageRest
    /\ UNCHANGED <<pf, ne>>

\* what the initial producer may settle to
ProducerOutcomes ==
    {Resolve(v) : v \in InitialValues}
        \cup {Reject(NewError("Initial error")), Reject(NonError("init fail"))}

\* the producer settles to one of `outcomes` and wrapInitial resumes after
\* its await
WrapInitialResumeWith(s, outcomes) ==
    /\ s \in StageIds
    /\ pc[s] = "awaitInitial"
    /\ \E o \in outcomes :
          /\ awaited' = [awaited EXCEPT ![s] = o]
          /\ promise' = [promise EXCEPT ![s] =
                            wrapInitialAfterAwait(stages[s].context, o)]
    /\ pc' = [pc EXCEPT ![s] = "done"]
    /\ UNCHANGED <<stages, fnCalls, fnOf, arg, execCalls, awaiters,
                   execResults, pf, ne>>

WrapInitialResume(s) == WrapInitialResumeWith(s, ProducerOutcomes)

\* the default of a step's context: `Transform step ${stepIndex}` in
\* transform, `Pipe step ${stepIndex}` in pipe
defaultStepContext_oneBased(type, stepIndex) ==
    (IF type = "transform" THEN "Transform step " ELSE "Pipe step ")
        \o ToString(stepIndex + 1)

defaultStepContext(type, stepIndex) ==
    (IF type = "transform" THEN "Transform step " ELSE "Pipe step ")
        \o ToString(stepIndex)

\* (Mutant: the chaining call records the step on `this` as well, with
\* this.steps.push(...), instead of copying the list.)
chainedOn_pushesStep(st, type) == [st EXCEPT !.steps = Append(@, type)]

\* the stage a chaining call is made on, after the call: transform and pipe
\* read this.steps, this.context and this.promise and assign none of them
\* (the new list is the copy [...this.steps, step])
chainedOn(st, type) == st

\* (Mutant: a step is numbered among the steps of its own kind only.)
stepIndexOf_sameKind(steps, type) ==
    Cardinality({i \in DOMAIN steps : steps[i] = type})

\* `const stepIndex = this.steps.length`, in transform and in pipe alike
stepIndexOf(steps, type) == Len(steps)

\* (Mutant: the new stage keeps the context of the stage it was chained
\* on: new Pipeline(..., this.context).)
newPipelineContext_inherited(thisContext, finalStepContext) == thisContext

\* the context argument of `new Pipeline<R>(..., finalStepContext)`
newPipelineContext(thisContext, finalStepContext) == finalStepContext

\* transform(fn, stepContext) / pipe(fn, stepContext) on stage p: the new
\* stage's async function starts and stops at `await this.promise`; the
\* constructor's own wrapInitial promise is overwritten by newPromise.
\* At most `limit` stages are created.
ChainWithin(limit, type, p, stepContext) ==
    /\ p \in StageIds
    /\ Len(stages) < limit
    /\ LET stepIndex == stepIndexOf(stages[p].steps, type)
           finalStepContext ==
               Or(stepContext, defaultStepContext(type, stepIndex))
       IN /\ stages' = Append(
                 [stages EXCEPT ![p] = chainedOn(stages[p], type)],
                 [parent |-> p, type |-> type,
                  context |-> newPipelineContext(stages[p].context,
                                                 finalStepContext),
                  contextArg |-> stepContext,
                  steps |-> Append(stages[p].steps, type),
                  stepIndex |-> stepIndex,
                  pipelineContext |-> stages[p].context,
                  initial |-> derivedInitial(p)])
          /\ fnCalls' = wrapInitialCalls(Append(fnCalls, 0), derivedInitial(p))
    /\ pc' = Append(pc, "awaitPromise")
    /\ promise' = Append(promise, Pending)
    /\ awaited' = Append(awaited, NotYet)
    /\ NewStageRest
    /\ UNCHANGED <<pf, ne>>

Chain(type, p, stepContext) == ChainWithin(MaxStages, type, p, stepContext)

Transform(p, stepContext) == Chain("transform", p, stepContext)

Pipe(p, stepContext) == Chain("pipe", p, stepContext)

\* the stage's async function resumes after `await this.promise`: it
\* propagates, fails on an empty input, or calls fn; a synchronous throw of
\* fn is caught at once, otherwise the function stops at `await fn(value)`;
\* fn is one of `fns`
StepResumeWith(s, fns) ==
    /\ s \in StageIds
    /\ pc[s] = "awaitPromise"
    /\ promise[awaitedStage(s)].state # "pending"
    /\ LET r == AfterAwait(stages[s], promise[awaitedStage(s)])
       IN IF r.do = "settle"
          THEN /\ promise' = [promise EXCEPT ![s] = r.promise]
               /\ pc' = [pc EXCEPT ![s] = "done"]
               /\ UNCHANGED <<fnCalls, fnOf, arg, awaited>>
          ELSE \E f \in fns :
                  /\ fnCalls' = [fnCalls EXCEPT ![s] = @ + 1]
                  /\ fnOf' = [fnOf EXCEPT ![s] = f]
                  /\ arg' = [arg EXCEPT ![s] = r.arg]
                  /\ IF ApplyFn(f, r.arg).sync
                     THEN /\ awaited' = [awaited EXCEPT ![s] = ApplyFn(f, r.arg).outcome]
                          /\ promise' = [promise EXCEPT ![s] =
                                 AfterFn(stages[s], ApplyFn(f, r.arg).outcome)]
                          /\ pc' = [pc EXCEPT ![s] = "done"]
                     ELSE /\ pc' = [pc EXCEPT ![s] = "awaitFn"]
                          /\ UNCHANGED <<promise, awaited>>
    /\ UNCHANGED <<stages, execCalls, awaiters, execResults, pf, ne>>

StepResume(s) == StepResumeWith(s, Fns)

\* (Mutant: the step waits for fn's promise for a while only and goes on
\* with undefined when it has not settled.)
awaitFn_givesUp(o) == IF o.kind = "none" THEN Resolve(Undefined) ELSE o

\* `await fn(value)`: what the await yields is what fn's promise settles to,
\* and nothing as long as it has not settled
awaitFn(o) == o

\* the promise returned by fn settles and the async function resumes
FnResume(s) ==
    /\ s \in StageIds
    /\ pc[s] = "awaitFn"
    /\ LET o == awaitFn(ApplyFn(fnOf[s], arg[s]).outcome)
       IN /\ o.kind # "none"
          /\ awaited' = [awaited EXCEPT ![s] = o]
          /\ promise' = [promise EXCEPT ![s] = AfterFn(stages[s], o)]
    /\ pc' = [pc EXCEPT ![s] = "done"]
    /\ UNCHANGED <<stages, fnCalls, fnOf, arg, execCalls, awaiters,
                   execResults, pf, ne>>

\* a caller calls execute() on stage s and awaits the result
Execute(s) ==
    /\ s \in StageIds
    /\ execCalls < MaxExec
    /\ execCalls' = execCalls + 1
    /\ awaiters' = [awaiters EXCEPT ![s] = execute(s).awaiters]
    /\ pc' = [pc EXCEPT ![s] = execute(s).pc]
    /\ UNCHANGED <<stages, promise, fnCalls, fnOf, arg, awaited,
                   execResults, pf, ne>>

\* the promise of stage s is settled and a caller of execute() resumes
ExecuteResume(s) ==
    /\ s \in StageIds
    /\ awaiters[s] > 0
    /\ promise[s].state # "pending"
    /\ awaiters' = [awaiters EXCEPT ![s] = @ - 1]
    /\ execResults' = [execResults EXCEPT ![s] = @ \cup {promise[s]}]
    /\ UNCHANGED <<stages, pc, promise, fnCalls, fnOf, arg, awaited,
                   execCalls, pf, ne>>

\* promiseFor(promiseOrFunction, optionsOrPostProcessor, legacyContext): the
\* call runs up to `await promise`; a factory that throws is caught at once
PromiseFor(isFactory, second, legacyContext) ==
    /\ stages = <<>>
    /\ pf.pc \in {"idle", "returned"}
    /\ pf.calls < MaxCalls
    /\ LET parsed == promiseForParse(second, legacyContext)
           started == [pc |-> "awaitPromise", calls |-> pf.calls + 1,
                       second |-> second, legacyContext |-> legacyContext,
                       postProcessor |-> parsed.postProcessor,
                       context |-> parsed.context, resolved |-> NotCalled,
                       awaited |-> NotYet, result |-> <<Null, NoError>>]
       IN \E throws \in (IF isFactory THEN BOOLEAN ELSE {FALSE}) :
             IF throws
             THEN pf' = promiseForEnd(
                     [started EXCEPT
                         !.awaited = Reject(NewError("Function error"))],
                     promiseForAfterAwait(parsed.postProcessor,
                         parsed.context, Reject(NewError("Function error"))))
             ELSE pf' = started
    /\ UNCHANGED <<pipeVars, ne>>

\* the producer settles to one of `outcomes` and promiseFor resumes after
\* `await promise`; withBody says whether the failed response's body is read
PromiseForResumeWith(outcomes, withBody) ==
    /\ pf.pc = "awaitPromise"
    /\ \E o \in outcomes :
          LET r == IF withBody
                   THEN promiseForAfterAwaitHttp(pf.postProcessor,
                                                 pf.context, o)
                   ELSE promiseForAfterAwait(pf.postProcessor,
                                             pf.context, o)
          IN IF r.do # "call"
             THEN pf' = promiseForEnd([pf EXCEPT !.awaited = o], r)
             ELSE IF ApplyFn(pf.postProcessor, r.arg).sync
             THEN pf' = promiseForEnd(
                            [pf EXCEPT !.awaited = o, !.resolved = r.arg],
                            promiseForAfterPost(pf.context, r.arg,
                                ApplyFn(pf.postProcessor, r.arg).outcome))
             ELSE pf' = [pf EXCEPT !.pc = "awaitPost", !.awaited = o,
                                   !.resolved = r.arg]
    /\ UNCHANGED <<pipeVars, ne>>

PromiseForResume == PromiseForResumeWith(PfOutcomes, FALSE)

\* the post-processor's promise settles and promiseFor returns
PromiseForPostResume ==
    /\ pf.pc = "awaitPost"
    /\ pf' = promiseForEnd(pf,
                 promiseForAfterPost(pf.context, pf.resolved,
                     ApplyFn(pf.postProcessor, pf.resolved).outcome))
    /\ UNCHANGED <<pipeVars, ne>>

Next ==
    \/ \E isFactory \in BOOLEAN, ctx \in PipelineContexts : PipeFor(isFactory, ctx)
    \/ \E s \in StageIds : WrapInitialResume(s)
    \/ \E p \in StageIds, c \in StepContexts : Transform(p, c)
    \/ \E p \in StageIds, c \in StepContexts : Pipe(p, c)
    \/ \E s \in StageIds : StepResume(s)
    \/ \E s \in StageIds : FnResume(s)
    \/ \E s \in StageIds : Execute(s)
    \/ \E s \in StageIds : ExecuteResume(s)
    \/ \E isFactory \in BOOLEAN, second \in SecondArgs, c \in LegacyContexts :
           PromiseFor(isFactory, second, c)
    \/ PromiseForResume
    \/ PromiseForPostResume

Spec == Init /\ [][Next]_vars

\* --------------------------------------------- promiseFor on HTTP responses
\* promiseFor calls whose producer resolves to a Response, failed ones
\* going through the classifier.
HttpOutcomes == {Resolve(v) : v \in {"Response200"} \cup FailedResponses}

NextHttp ==
    \/ \E isFactory \in BOOLEAN, second \in SecondArgs, c \in LegacyContexts :
           PromiseFor(isFactory, second, c)
    \/ PromiseForResumeWith(HttpOutcomes, TRUE)
    \/ PromiseForPostResume

SpecHttp == Init /\ [][NextHttp]_vars

\* ------------------------------------- the normalizer and the adapters alone
\* A caller holds a raised value, normalizes it, and wraps the descriptor
\* in one of the two adapters.
InitError ==
    /\ stages = <<>>
    /\ pc = <<>>
    /\ promise = <<>>
    /\ fnCalls = <<>>
    /\ fnOf = <<>>
    /\ arg = <<>>
    /\ awaited = <<>>
    /\ execCalls = 0
    /\ awaiters = <<>>
    /\ execResults = <<>>
    /\ pf = PfIdle
    /\ \E err \in RaisedValues, context \in NormalizeContexts,
          stepDetails \in StepDetailsArgs :
          ne = [NeIdle EXCEPT !.pc = "raised", !.raised = err,
                              !.context = context,
                              !.stepDetails = stepDetails]

\* normalizeError(raised, context, stepDetails) is called: it returns the
\* descriptor, or throws
Normalize ==
    /\ ne.pc = "raised"
    /\ LET d == normalizeError(ne.raised, ne.context, ne.stepDetails)
       IN ne' = IF IsThrown(d)
                THEN [ne EXCEPT !.pc = "threw"]
                ELSE [ne EXCEPT !.pc = "normalized", !.descriptor = d]
    /\ UNCHANGED <<pipeVars, pf>>

NewPipelineError ==
    /\ ne.pc = "normalized"
    /\ ne' = [ne EXCEPT !.pc = "thrown",
                 !.adapter = PipelineError(ne.descriptor)]
    /\ UNCHANGED <<pipeVars, pf>>

NewPromiseForError ==
    /\ ne.pc = "normalized"
    /\ ne' = [ne EXCEPT !.pc = "thrown",
                 !.adapter = PromiseForError(ne.descriptor)]
    /\ UNCHANGED <<pipeVars, pf>>

NextError ==
    \/ Normalize
    \/ NewPipelineError
    \/ NewPromiseForError

SpecError == InitError /\ [][NextError]_vars

\* ------------------------------------------- normalizeError on any value
\* The raised values of every kind a caller can throw: the ones above, an
\* Error with an empty message, null, undefined, a plain object and an
\* object without a string conversion.
AnyRaisedValues ==
    RaisedValues
        \cup {NewError(""), NonError("null"), NonError("undefined"),
              NonError("[object Object]"), NullPrototypeObject}

InitAnyRaised ==
    /\ stages = <<>>
    /\ pc = <<>>
    /\ promise = <<>>
    /\ fnCalls = <<>>
    /\ fnOf = <<>>
    /\ arg = <<>>
    /\ awaited = <<>>
    /\ execCalls = 0
    /\ awaiters = <<>>
    /\ execResults = <<>>
    /\ pf = PfIdle
    /\ \E err \in AnyRaisedValues, context \in NormalizeContexts,
          stepDetails \in StepDetailsArgs :
          ne = [NeIdle EXCEPT !.pc = "raised", !.raised = err,
                              !.context = context,
                              !.stepDetails = stepDetails]

SpecAnyRaised == InitAnyRaised /\ [][NextError]_vars

\* ----------------------------------------------- runs under fair scheduling
\* The pipeline with the producer and every called step function settling,
\* and every continuation of a settled promise eventually run.  The
\* producer resolves or rejects; a step function returns a value, throws,
\* or returns a promise that rejects.
LiveOutcomes == {Resolve("1"), Reject(NewError("Initial error"))}
LiveFns == {"inc", "throwError", "rejectString"}

NextLive ==
    \/ \E isFactory \in BOOLEAN : PipeFor(isFactory, Undefined)
    \/ \E s \in StageIds : WrapInitialResumeWith(s, LiveOutcomes)
    \/ \E p \in StageIds : Transform(p, Undefined)
    \/ \E p \in StageIds : Pipe(p, Undefined)
    \/ \E s \in StageIds : StepResumeWith(s, LiveFns)
    \/ \E s \in StageIds : FnResume(s)
    \/ \E s \in StageIds : Execute(s)
    \/ \E s \in StageIds : ExecuteResume(s)

SpecLive ==
    /\ Init
    /\ [][NextLive]_vars
    /\ WF_vars(\E s \in StageIds : WrapInitialResumeWith(s, LiveOutcomes))
    /\ WF_vars(\E s \in StageIds : StepResumeWith(s, LiveFns))
    /\ WF_vars(\E s \in StageIds : FnResume(s))
    /\ WF_vars(\E s \in StageIds : ExecuteResume(s))

\* ------------------------------------------------- chains run side by side
\* Several pipeFor chains, and a promiseFor call, created and resumed in
\* any order.
Roots == {s \in StageIds : stages[s].parent = 0}

\* pipeFor(initial, context) while other chains exist
PipeForBeside(isFactory, ctx) ==
    /\ Cardinality(Roots) < MaxChains
    /\ Len(stages) < MaxTwoStages
    /\ LET s == Len(stages) + 1
           context == IF ctx = Undefined THEN "Pipeline initialization" ELSE ctx
           initial == IF isFactory THEN FactoryInitial(s) ELSE PromiseInitial
       IN /\ stages' = Append(stages,
                 [parent |-> 0, type |-> "initialization",
                  context |-> context, contextArg |-> ctx,
                  steps |-> <<>>,
                  stepIndex |-> -1, pipelineContext |-> context,
                  initial |-> initial])
          /\ fnCalls' = wrapInitialCalls(Append(fnCalls, 0), initial)
          /\ \E throws \in (IF isFactory THEN BOOLEAN ELSE {FALSE}) :
                IF throws
                THEN /\ pc' = Append(pc, "done")
                     /\ awaited' = Append(awaited,
                                          Reject(NewError("Function error")))
                     /\ promise' = Append(promise,
                            wrapInitialAfterAwait(context,
                                Reject(NewError("Function error"))))
                ELSE /\ pc' = Append(pc, "awaitInitial")
                     /\ awaited' = Append(awaited, NotYet)
                     /\ promise' = Append(promise, Pending)
    /\ NewStageRest
    /\ UNCHANGED <<pf, ne>>

TwoOutcomes == {Resolve("1"), Reject(NewError("Initial error"))}
TwoFns == {"inc", "throwError"}
TwoPfOutcomes == {Resolve("1"), Reject(NewError("Test error"))}

NextTwo ==
    \/ \E isFactory \in BOOLEAN, ctx \in PipelineContexts :
           PipeForBeside(isFactory, ctx)
    \/ \E s \in StageIds : WrapInitialResumeWith(s, TwoOutcomes)
    \/ \E p \in StageIds :
           ChainWithin(MaxTwoStages, "transform", p, Undefined)
    \/ \E p \in StageIds : ChainWithin(MaxTwoStages, "pipe", p, Undefined)
    \/ \E s \in StageIds : StepResumeWith(s, TwoFns)
    \/ \E s \in StageIds : FnResume(s)
    \/ PromiseFor(FALSE, FunctionArg("inc"), Undefined)
    \/ PromiseForResumeWith(TwoPfOutcomes, FALSE)
    \/ PromiseForPostResume

SpecTwo == Init /\ [][NextTwo]_vars

\* ------------------------------------- runs with a function that hangs
\* The pipeline under the same fair scheduling, with step functions that
\* may return a promise that never settles.
HangFns == {"inc", "throwError", "never"}

NextHang ==
    \/ \E isFactory \in BOOLEAN : PipeFor(isFactory, Undefined)
    \/ \E s \in StageIds : WrapInitialResumeWith(s, LiveOutcomes)
    \/ \E p \in StageIds : Transform(p, Undefined)
    \/ \E p \in StageIds : Pipe(p, Undefined)
    \/ \E s \in StageIds : StepResumeWith(s, HangFns)
    \/ \E s \in StageIds : FnResume(s)
    \/ \E s \in StageIds : Execute(s)
    \/ \E s \in StageIds : ExecuteResume(s)

SpecHang ==
    /\ Init
    /\ [][NextHang]_vars
    /\ WF_vars(\E s \in StageIds : WrapInitialResumeWith(s, LiveOutcomes))
    /\ WF_vars(\E s \in StageIds : StepResumeWith(s, HangFns))
    /\ WF_vars(\E s \in StageIds : FnResume(s))
    /\ WF_vars(\E s \in StageIds : ExecuteResume(s))

\* ------------------------------- runs that raise an unconvertible object
\* The pipeline and promiseFor, with a producer that may reject with an
\* object that has no string conversion and functions that may throw or
\* reject with one.
UnconvertibleOutcomes == {Resolve("1"), Reject(NullPrototypeObject)}
UnconvertibleFns == {"inc", "throwObject", "rejectObject"}

NextUnconvertible ==
    \/ \E isFactory \in BOOLEAN : PipeFor(isFactory, Undefined)
    \/ \E s \in StageIds : WrapInitialResumeWith(s, UnconvertibleOutcomes)
    \/ \E p \in StageIds : Transform(p, Undefined)
    \/ \E p \in StageIds : Pipe(p, Undefined)
    \/ \E s \in StageIds : StepResumeWith(s, UnconvertibleFns)
    \/ \E s \in StageIds : FnResume(s)
    \/ \E s \in StageIds : Execute(s)
    \/ \E s \in StageIds : ExecuteResume(s)
    \/ \E isFactory \in BOOLEAN,
          second \in {AbsentArg} \cup {FunctionArg(f) : f \in UnconvertibleFns} :
           PromiseFor(isFactory, second, Undefined)
    \/ PromiseForResumeWith(UnconvertibleOutcomes, FALSE)
    \/ PromiseForPostResume

SpecUnconvertible == Init /\ [][NextUnconvertible]_vars

\* ------------------------------------------ runs over falsy, non-empty values
\* The same pipeline, with a producer that resolves to 0, false or '' and
\* step functions that return one of them.
FalsyValues == {"0", "false", ""}
FalsyOutcomes == {Resolve(v) : v \in FalsyValues}
FalsyFns == {"retZero", "retFalse", "retEmpty"}

NextFalsy ==
    \/ \E isFactory \in BOOLEAN, ctx \in PipelineContexts : PipeFor(isFactory, ctx)
    \/ \E s \in StageIds : WrapInitialResumeWith(s, FalsyOutcomes)
    \/ \E p \in StageIds, c \in StepContexts : Transform(p, c)
    \/ \E p \in StageIds, c \in StepContexts : Pipe(p, c)
    \/ \E s \in StageIds : StepResumeWith(s, FalsyFns)
    \/ \E s \in StageIds : FnResume(s)
    \/ \E s \in StageIds : Execute(s)
    \/ \E s \in StageIds : ExecuteResume(s)

SpecFalsy == Init /\ [][NextFalsy]_vars


\* ----------------------------------------------------- reading the state
Parent(s) == stages[s].parent
IsRoot(s) == stages[s].parent = 0
Settled(s) == promise[s].state # "pending"
Failed(s) == promise[s].state = "fulfilled" /\ promise[s].pair[2] # NoError
Populated(v) == v \notin {Null, Undefined}

\* a is a strict ancestor of s
RECURSIVE IsAncestor(_, _)
IsAncestor(a, s) ==
    /\ ~IsRoot(s)
    /\ (Parent(s) = a \/ IsAncestor(a, Parent(s)))

\* the number of chaining calls between the root and s
RECURSIVE Depth(_)
Depth(s) == IF IsRoot(s) THEN 0 ELSE 1 + Depth(Parent(s))

\* the producer or the step function of s is running
InFlight(s) == pc[s] \in {"awaitInitial", "awaitFn"}

\* the pairs returned so far by execute() on s
ReturnedPairs(s) == {r.pair : r \in {x \in execResults[s] : x.state = "fulfilled"}}

\* the message normalizeError reads off a raised value: err.message of an
\* Error, String(err) of anything else
RaisedMessage(err) == IF err.isError THEN err.message ELSE err.str

\* the context a caller gave to pipeFor, or its default
PipelineContextOf(s) ==
    IF stages[s].contextArg = Undefined THEN "Pipeline initialization"
    ELSE stages[s].contextArg

\* the default context of the step that created stage s
DefaultContextOf(s) ==
    IF stages[s].type = "transform"
    THEN "Transform step " \o ToString(Depth(s) - 1)
    ELSE "Pipe step " \o ToString(Depth(s) - 1)

\* the context a caller gave to the step that created stage s, or its default
StepContextOf(s) ==
    IF stages[s].contextArg = Undefined THEN DefaultContextOf(s)
    ELSE stages[s].contextArg

\* ------------------------------------------------------------------ claims

\* C1: when the step at index i is the first of its chain to fail, no
\* later step's function is ever called, and execute() on a later stage
\* returns an error whose stepInfo.index is i.
C1_ShortCircuit ==
    \A a \in StageIds : \A t \in StageIds :
        (/\ ~IsRoot(a)
         /\ IsAncestor(a, t)
         /\ Failed(a)
         /\ ~Failed(Parent(a)))
        => /\ fnCalls[t] = 0
           /\ \A r \in execResults[t] :
                 /\ r.state = "fulfilled"
                 /\ r.pair[2] # NoError
                 /\ "stepInfo" \in DOMAIN r.pair[2]
                 /\ r.pair[2].stepInfo.index = Depth(a) - 1

C1_Witness ==
    \E a \in StageIds : \E t \in StageIds :
        /\ ~IsRoot(a)
        /\ IsAncestor(a, t)
        /\ Failed(a)
        /\ ~Failed(Parent(a))
        /\ fnCalls[a] = 1
        /\ execResults[t] # {}

\* C2: once a stage's pair carries an error descriptor, every stage
\* chained after it settles to a pair with that very descriptor (message,
\* name, context and stepInfo unchanged).
C2_FailureAbsorbing ==
    \A a \in StageIds : \A t \in StageIds :
        (IsAncestor(a, t) /\ Failed(a) /\ Settled(t))
        => /\ promise[t] = Fulfilled(<<Null, promise[a].pair[2]>>)
           /\ \A r \in execResults[t] : r = promise[t]

C2_Witness ==
    \E a \in StageIds : \E t \in StageIds :
        /\ IsAncestor(a, t)
        /\ Parent(t) # a
        /\ Failed(a)
        /\ stages[Parent(t)].type = "pipe"
        /\ execResults[t] # {}

\* C3: the promise returned by execute() never rejects; when the producer
\* rejected, the factory threw, or the step function threw or rejected,
\* the pair's error side is populated.
C3_ExecuteNeverRejects ==
    \A s \in StageIds :
        /\ promise[s].state # "rejected"
        /\ \A r \in execResults[s] :
              /\ r.state = "fulfilled"
              /\ awaited[s].kind = "reject" => r.pair[2] # NoError

C3_Witness ==
    \E s \in StageIds :
        /\ stages[s].type = "transform"
        /\ awaited[s].kind = "reject"
        /\ execResults[s] # {}

\* C4: every pair returned by promiseFor or by execute() has exactly one
\* side populated: never both, never neither.
C4_ExactlyOneSide ==
    /\ \A s \in StageIds : \A pair \in ReturnedPairs(s) :
          Populated(pair[1]) # (pair[2] # NoError)
    /\ pf.pc = "returned" =>
          Populated(pf.result[1]) # (pf.result[2] # NoError)

\* C5: in every pair returned by promiseFor or by execute(), a non-null
\* error side comes with a null value side.
C5_ErrorImpliesNullValue ==
    /\ \A s \in StageIds : \A pair \in ReturnedPairs(s) :
          pair[2] # NoError => pair[1] = Null
    /\ pf.pc = "returned" =>
          (pf.result[2] # NoError => pf.result[1] = Null)

C5_Witness ==
    /\ pf.pc = "returned"
    /\ pf.awaited = Resolve("1")
    /\ pf.resolved = "1"
    /\ pf.postProcessor = "rejectString"
    /\ pf.result[2] # NoError

\* C6: a step's function is called only after the pair of the stage it was
\* chained on has settled, and no two functions of one lineage (the
\* producer included) are in flight together.
C6_Sequential ==
    \A s \in StageIds :
        /\ (~IsRoot(s) /\ (fnCalls[s] > 0 \/ pc[s] = "awaitFn"))
              => Settled(Parent(s))
        /\ \A a \in StageIds :
              IsAncestor(a, s) => ~(InFlight(a) /\ InFlight(s))

C6_Witness ==
    \E s \in StageIds :
        /\ ~IsRoot(s)
        /\ ~IsRoot(Parent(s))
        /\ pc[s] = "awaitFn"
        /\ fnCalls[Parent(s)] = 1

\* C7: all execute() calls on one stage return the same pair.
C7_ExecuteIdempotent ==
    \A s \in StageIds :
        /\ Cardinality(execResults[s]) <= 1
        /\ \A r \in execResults[s] : r = promise[s]

C7_Witness ==
    \E s \in StageIds :
        /\ execCalls = MaxExec
        /\ \A u \in StageIds : awaiters[u] = 0
        /\ \A u \in StageIds : u # s => execResults[u] = {}
        /\ execResults[s] # {}
        /\ ~IsRoot(s)
        /\ fnCalls[s] = 1

\* C8: the producer factory and every step function are called at most
\* once, whatever is executed or chained.
C8_AtMostOnce ==
    \A s \in StageIds : fnCalls[s] <= 1

C8_Witness ==
    /\ Len(stages) = 3
    /\ stages[1].initial.kind = "factory"
    /\ Parent(2) = 1
    /\ Parent(3) = 1
    /\ \A s \in StageIds : fnCalls[s] = 1 /\ Settled(s)
    /\ execCalls = MaxExec
    /\ \A s \in StageIds : awaiters[s] = 0

\* C9: no producer factory and no step function is called before
\* execute() has been called on some stage.
C9_Lazy ==
    execCalls = 0 => \A s \in StageIds : fnCalls[s] = 0

\* the value a lineage of successful steps yields, from the producer's
\* value and the functions the steps hold
RECURSIVE ExpectedValue(_)
ExpectedValue(s) ==
    IF IsRoot(s) THEN awaited[s].val
    ELSE ApplyFn(fnOf[s], ExpectedValue(Parent(s))).outcome.val

\* the producer resolved to a non-empty value and every step up to s
\* returned a non-empty value
RECURSIVE ChainSucceeds(_)
ChainSucceeds(s) ==
    IF IsRoot(s)
    THEN awaited[s].kind = "resolve" /\ Populated(awaited[s].val)
    ELSE /\ ChainSucceeds(Parent(s))
         /\ fnOf[s] \in Fns
         /\ LET r == ApplyFn(fnOf[s], ExpectedValue(Parent(s)))
            IN /\ ~r.sync
               /\ r.outcome.kind = "resolve"
               /\ Populated(r.outcome.val)

\* C10: when the producer resolves to a non-empty v0 and every step
\* succeeds with a non-empty result, each function receives the value of
\* the stage before it and execute() returns (f_n(...f_1(v0)...), null).
C10_Composition ==
    \A s \in StageIds :
        ChainSucceeds(s) =>
            /\ ~IsRoot(s) => arg[s] = ExpectedValue(Parent(s))
            /\ \A r \in execResults[s] :
                  r = Fulfilled(<<ExpectedValue(s), NoError>>)

C10_Witness ==
    \E s \in StageIds :
        /\ ChainSucceeds(s)
        /\ Depth(s) = 2
        /\ stages[s].type # stages[Parent(s)].type
        /\ fnOf[s] # fnOf[Parent(s)]
        /\ execResults[s] # {}

\* C11: when the function of the step at index i throws or rejects, the
\* step's stage settles to (null, d) where d.message is the raised error's
\* message, d.context is the step's context (explicit or default) and
\* d.stepInfo is {index: i, type: the step's type, pipelineContext: the
\* context of the stage the step was chained on}.
C11_StepFailureDescriptor ==
    \A s \in StageIds :
        (~IsRoot(s) /\ awaited[s].kind = "reject")
        => /\ promise[s].state = "fulfilled"
           /\ promise[s].pair[1] = Null
           /\ promise[s].pair[2] # NoError
           /\ promise[s].pair[2].message = RaisedMessage(awaited[s].err)
           /\ promise[s].pair[2].context = StepContextOf(s)
           /\ "stepInfo" \in DOMAIN promise[s].pair[2]
           /\ promise[s].pair[2].stepInfo =
                 [index |-> Depth(s) - 1, type |-> stages[s].type,
                  pipelineContext |-> IF IsRoot(Parent(s))
                                      THEN PipelineContextOf(Parent(s))
                                      ELSE StepContextOf(Parent(s))]
           /\ \A r \in execResults[s] : r = promise[s]

C11_Witness ==
    \E s \in StageIds :
        /\ Depth(s) = 2
        /\ stages[s].type = "pipe"
        /\ stages[Parent(s)].type = "transform"
        /\ stages[Parent(s)].contextArg = "Custom step"
        /\ awaited[s] = Reject(NonError("oops"))
        /\ execResults[s] # {}

\* C12: a step chained without a stepContext gets the context
\* 'Transform step i' (transform) or 'Pipe step i' (pipe), i being its
\* position in the chain, and an error raised at that step carries it.
C12_DefaultStepContext ==
    \A s \in StageIds :
        (~IsRoot(s) /\ stages[s].contextArg = Undefined)
        => /\ stages[s].context = DefaultContextOf(s)
           /\ (Failed(s) /\ ~Failed(Parent(s)))
                 => promise[s].pair[2].context = DefaultContextOf(s)

C12_Witness ==
    \E s \in StageIds :
        /\ Depth(s) = 2
        /\ stages[s].type = "pipe"
        /\ stages[s].contextArg = Undefined
        /\ stages[Parent(s)].type = "transform"
        /\ stages[Parent(s)].contextArg = Undefined
        /\ stages[Parent(s)].context = "Transform step 0"
        /\ Failed(s)
        /\ ~Failed(Parent(s))
        /\ promise[s].pair[2].context = "Pipe step 1"

\* C13: when the producer rejects or the factory throws, execute() on the
\* root and on every derived stage returns (null, d) with d.message the
\* rejection's message, d.context the pipeline's context (or 'Pipeline
\* initialization'), d.stepInfo {index: -1, type: 'initialization',
\* pipelineContext: that context}, and no chained function is called.
C13_InitializationFailure ==
    \A s \in StageIds :
        awaited[1].kind = "reject"
        => /\ ~IsRoot(s) => fnCalls[s] = 0
           /\ Settled(s) =>
                 promise[s] = Fulfilled(<<Null, promise[1].pair[2]>>)
           /\ \A r \in execResults[s] :
                 /\ r.state = "fulfilled"
                 /\ r.pair[1] = Null
                 /\ r.pair[2] # NoError
                 /\ r.pair[2].message = RaisedMessage(awaited[1].err)
                 /\ r.pair[2].context = PipelineContextOf(1)
                 /\ "stepInfo" \in DOMAIN r.pair[2]
                 /\ r.pair[2].stepInfo =
                       [index |-> -1, type |-> "initialization",
                        pipelineContext |-> PipelineContextOf(1)]

C13_Witness ==
    \E s \in StageIds :
        /\ Depth(s) = 2
        /\ awaited[1] = Reject(NonError("init fail"))
        /\ execResults[1] # {}
        /\ execResults[s] # {}

\* C14: when the producer resolves to null or undefined, the root settles
\* to (null, d) with d.stepInfo {index: -1, type: 'initialization',
\* pipelineContext: the pipeline's context}, and no chained function is
\* called.
C14_EmptyInitial ==
    \A s \in StageIds :
        (awaited[1].kind = "resolve" /\ ~Populated(awaited[1].val))
        => /\ promise[1].state = "fulfilled"
           /\ promise[1].pair[1] = Null
           /\ promise[1].pair[2] # NoError
           /\ "stepInfo" \in DOMAIN promise[1].pair[2]
           /\ promise[1].pair[2].stepInfo =
                 [index |-> -1, type |-> "initialization",
                  pipelineContext |-> PipelineContextOf(1)]
           /\ ~IsRoot(s) => fnCalls[s] = 0

\* C15: a falsy value that is not null or undefined (0, false, '') is never
\* taken for a failure: a producer or step function that yields it settles
\* its stage to (value, null), and the function of a step chained on that
\* stage is called with that value.
C15_FalsyIsValue ==
    \A s \in StageIds :
        /\ (awaited[s].kind = "resolve" /\ awaited[s].val \in FalsyValues)
              => /\ promise[s] = Fulfilled(<<awaited[s].val, NoError>>)
                 /\ \A r \in execResults[s] : r = promise[s]
        /\ (/\ ~IsRoot(s)
            /\ pc[s] # "awaitPromise"
            /\ promise[Parent(s)].state = "fulfilled"
            /\ promise[Parent(s)].pair[1] \in FalsyValues
            /\ promise[Parent(s)].pair[2] = NoError)
              => /\ fnCalls[s] = 1
                 /\ arg[s] = promise[Parent(s)].pair[1]

C15_Witness ==
    \E s \in StageIds :
        /\ Depth(s) = 2
        /\ awaited[1] = Resolve("0")
        /\ stages[Parent(s)].type = "transform"
        /\ awaited[Parent(s)] = Resolve("")
        /\ arg[Parent(s)] = "0"
        /\ stages[s].type = "pipe"
        /\ arg[s] = ""
        /\ awaited[s] = Resolve("false")
        /\ execResults[s] = {Fulfilled(<<"false", NoError>>)}

\* C16: when the function of a transform step at index i returns null or
\* undefined, the step's stage settles to (null, d) with d.context the
\* step's context and d.stepInfo {index: i, type: 'transform'}, not to a
\* success pair.
C16_TransformEmptyResult ==
    \A s \in StageIds :
        (/\ ~IsRoot(s)
         /\ stages[s].type = "transform"
         /\ awaited[s].kind = "resolve"
         /\ ~Populated(awaited[s].val))
        => /\ promise[s].state = "fulfilled"
           /\ promise[s].pair[1] = Null
           /\ promise[s].pair[2] # NoError
           /\ promise[s].pair[2].context = StepContextOf(s)
           /\ "stepInfo" \in DOMAIN promise[s].pair[2]
           /\ promise[s].pair[2].stepInfo.index = Depth(s) - 1
           /\ promise[s].pair[2].stepInfo.type = "transform"

\* C17: the function of a pipe step is never called with null or
\* undefined: on such an input the pipe's stage settles to (null, d) with
\* d.context this step's context and d.stepInfo {index: i, type: 'pipe',
\* pipelineContext: the context of the stage before it}.
C17_PipeInputGuard ==
    \A s \in StageIds :
        (~IsRoot(s) /\ stages[s].type = "pipe")
        => /\ Populated(arg[s])
           /\ (/\ pc[s] # "awaitPromise"
               /\ promise[Parent(s)].state = "fulfilled"
               /\ promise[Parent(s)].pair[2] = NoError
               /\ ~Populated(promise[Parent(s)].pair[1]))
                 => /\ fnCalls[s] = 0
                    /\ promise[s].state = "fulfilled"
                    /\ promise[s].pair[1] = Null
                    /\ promise[s].pair[2] # NoError
                    /\ promise[s].pair[2].context = StepContextOf(s)
                    /\ "stepInfo" \in DOMAIN promise[s].pair[2]
                    /\ promise[s].pair[2].stepInfo =
                          [index |-> Depth(s) - 1, type |-> "pipe",
                           pipelineContext |-> stages[Parent(s)].context]
                    /\ \A r \in execResults[s] : r = promise[s]

C17_Witness ==
    \E s \in StageIds :
        /\ Depth(s) = 2
        /\ stages[s].type = "pipe"
        /\ stages[Parent(s)].type = "pipe"
        /\ awaited[Parent(s)] = Resolve(Undefined)
        /\ promise[Parent(s)] = Fulfilled(<<Undefined, NoError>>)
        /\ fnCalls[s] = 0
        /\ execResults[s] # {}

\* the producer of the promiseFor call resolved to a value that is not a
\* failed HTTP response
PfNonFailure ==
    /\ pf.awaited.kind = "resolve"
    /\ ~(IsResponse(pf.awaited.val) /\ ~ResponseOk(pf.awaited.val))

\* what the post-processor of the promiseFor call does with the resolved value
PfPost == ApplyFn(pf.postProcessor, pf.awaited.val)

\* C18: promiseFor on a producer that resolves to a non-failure value v
\* returns (v, null) without a post-processor and, with a post-processor
\* f that succeeds, (the awaited result of f(v), null).
C18_PromiseForSuccess ==
    (pf.pc = "returned" /\ PfNonFailure)
    => IF Falsy(pf.postProcessor)
       THEN pf.result = <<pf.awaited.val, NoError>>
       ELSE /\ pf.resolved = pf.awaited.val
            /\ PfPost.outcome.kind = "resolve"
                  => pf.result = <<PfPost.outcome.val, NoError>>

C18_Witness ==
    /\ pf.pc = "returned"
    /\ pf.calls = 2
    /\ pf.awaited = Resolve("1")
    /\ pf.postProcessor = "inc"
    /\ pf.result = <<"2", NoError>>

\* the promiseFor call failed: the producer rejected or the factory threw,
\* the resolved value is a failed HTTP response, or the post-processor
\* threw or rejected
PfFailure ==
    \/ pf.awaited.kind = "reject"
    \/ pf.awaited.kind = "resolve" /\ ~PfNonFailure
    \/ PfNonFailure /\ ~Falsy(pf.postProcessor)
           /\ PfPost.outcome.kind = "reject"

\* the value raised inside the failed promiseFor call
PfRaised ==
    IF pf.awaited.kind = "reject" THEN pf.awaited.err
    ELSE IF ~PfNonFailure
    THEN NewHTTPError("HTTP error! status: " \o ResponseStatus(pf.awaited.val),
                      ResponseStatus(pf.awaited.val),
                      ResponseUrl(pf.awaited.val))
    ELSE PfPost.outcome.err

\* C19: the promise returned by promiseFor never rejects; a producer that
\* rejects, a factory that throws, a failed HTTP response and a
\* post-processor that throws or rejects each yield (null, d), where
\* d.message is the raised value's message and, for a raised Error, d.name
\* is its name.
C19_PromiseForNeverRejects ==
    /\ pf.pc # "rejected"
    /\ (pf.pc = "returned" /\ PfFailure)
          => /\ pf.result[1] = Null
             /\ pf.result[2] # NoError
             /\ pf.result[2].message = RaisedMessage(PfRaised)
             /\ PfRaised.isError => pf.result[2].name = PfRaised.name

C19_Witness ==
    /\ pf.pc = "returned"
    /\ pf.calls = 2
    /\ pf.awaited = Reject(NewError("Test error"))
    /\ pf.postProcessor = "inc"
    /\ pf.result[2].message = "Test error"
    /\ pf.result[2].name = "Error"

\* C20: when the producer resolves to an HTTP response with ok = false,
\* promiseFor returns (null, d) with d.name = 'HTTPError', d.status the
\* response's status and d.url the response's url, and the post-processor
\* is not called.
C20_HttpFailure ==
    (/\ pf.pc \in {"awaitPost", "returned"}
     /\ pf.awaited.kind = "resolve"
     /\ IsResponse(pf.awaited.val)
     /\ ~ResponseOk(pf.awaited.val))
    => /\ pf.pc = "returned"
       /\ pf.resolved = NotCalled
       /\ pf.result[1] = Null
       /\ pf.result[2] # NoError
       /\ pf.result[2].name = "HTTPError"
       /\ pf.result[2].status = ResponseStatus(pf.awaited.val)
       /\ pf.result[2].url = ResponseUrl(pf.awaited.val)

C20_Witness ==
    /\ pf.pc = "returned"
    /\ pf.awaited = Resolve("Response404")
    /\ pf.postProcessor = "inc"
    /\ pf.resolved = NotCalled
    /\ pf.result[2].status = "404"

ExpectedHttpMessage(v) ==
    CASE v = "Response400Json" -> "invalid credentials"
      [] v = "Response422JsonError" -> "Validation failed"
      [] v = "Response409JsonOther" -> "{\"code\":\"E409\"}"
      [] v = "Response401Text" -> "Login error: Invalid credentials"
      [] v = "Response404" -> "Not Found"
      [] v = "Response500Consumed" -> "Internal Server Error"

PfPostFailed ==
    /\ PfNonFailure
    /\ ~Falsy(pf.postProcessor)
    /\ PfPost.outcome.kind = "reject"

\* the context string the caller supplied to the promiseFor call:
\* options.context in the options style, the third argument otherwise
PfSuppliedContext ==
    IF pf.second.kind = "options" THEN pf.second.context ELSE pf.legacyContext

\* the context of every descriptor of the promiseFor call
PfContextOf ==
    IF Falsy(PfSuppliedContext)
    THEN "Error occurred during promise resolution"
    ELSE PfSuppliedContext

\* C23 as stated: when the post-processor throws or rejects, the pair is
\* (null, d) and d.context is the fixed post-processing context.
C23_FixedPostContext ==
    (pf.pc = "returned" /\ PfPostFailed)
    => /\ pf.result[1] = Null
       /\ pf.result[2] # NoError
       /\ pf.result[2].context = PostProcessingContext

\* C23 amended: when the post-processor throws or rejects, the pair is
\* (null, d) and d.context is the context of the call (the one supplied,
\* or the default 'Error occurred during promise resolution'), the same
\* as for a failure of the producer.
C23_PostProcessorContext ==
    (pf.pc = "returned" /\ PfPostFailed)
    => /\ pf.result[1] = Null
       /\ pf.result[2] # NoError
       /\ pf.result[2].context = PfContextOf
       /\ pf.result[2].context # PostProcessingContext

C23_Witness ==
    /\ pf.pc = "returned"
    /\ pf.second = OptionsArg("throwError", Undefined)
    /\ pf.awaited = Resolve("1")
    /\ pf.resolved = "1"
    /\ pf.result[2].message = "bad"
    /\ pf.result[2].context = "Error occurred during promise resolution"

\* C24: the context supplied to promiseFor (options.context or the legacy
\* third argument) is the context of the descriptor of every failure of
\* the call; without one it is 'Error occurred during promise resolution'.
C24_SuppliedContext ==
    (pf.pc = "returned" /\ pf.result[2] # NoError)
    => /\ PfFailure
       /\ pf.result[2].context = PfContextOf

C24_Witness ==
    /\ pf.pc = "returned"
    /\ pf.calls = 2
    /\ pf.second = FunctionArg("rejectString")
    /\ pf.legacyContext = "Legacy context"
    /\ pf.awaited = Resolve("Response404")
    /\ pf.result[2].context = "Legacy context"

\* the pair promiseFor returns for the parsed arguments and the producer's
\* outcome o
PfPairOf(parsed, o) ==
    LET r == promiseForAfterAwait(parsed.postProcessor, parsed.context, o)
    IN IF r.do = "call"
       THEN promiseForAfterPost(parsed.context, r.arg,
                ApplyFn(parsed.postProcessor, r.arg).outcome).result
       ELSE r.result

\* the same call written in the other style: (f, c) as {postProcessor: f,
\* context: c}, and an options record as positional arguments
PfOtherStyle ==
    IF pf.second.kind = "options"
    THEN [second |-> IF Falsy(pf.second.postProcessor) THEN AbsentArg
                     ELSE FunctionArg(pf.second.postProcessor),
          legacyContext |-> pf.second.context]
    ELSE [second |-> OptionsArg(IF pf.second.kind = "function"
                                THEN pf.second.fn ELSE Undefined,
                                pf.legacyContext),
          legacyContext |-> Undefined]

\* the call is written in one style only: no third argument beside an
\* options record
PfOneStyle == pf.second.kind = "options" => pf.legacyContext = Undefined

\* C25: promiseFor(p, f, c) and promiseFor(p, {postProcessor: f, context:
\* c}) return equal pairs for every outcome of the producer: the same
\* value on success, the same descriptor on each failure.
C25_StylesAgree ==
    (pf.pc = "returned" /\ PfOneStyle)
    => pf.result = PfPairOf(promiseForParse(PfOtherStyle.second,
                                            PfOtherStyle.legacyContext),
                            pf.awaited)

C25_Witness ==
    /\ pf.pc = "returned"
    /\ pf.second = FunctionArg("inc")
    /\ pf.legacyContext = "Legacy context"
    /\ pf.awaited = Resolve("1")
    /\ pf.result = <<"2", NoError>>
    /\ PfOtherStyle.second = OptionsArg("inc", "Legacy context")

C27_AdapterShape ==
    ne.pc = "thrown"
    => /\ ne.adapter.message = ne.descriptor.message
       /\ ne.adapter.name \in {"PipelineError", "PromiseForError"}
       /\ ne.adapter.errorContext = ne.descriptor
       /\ ne.descriptor =
             normalizeError(ne.raised, ne.context, ne.stepDetails)
       /\ [PipelineError(ne.descriptor) EXCEPT !.name = "PromiseForError"]
             = PromiseForError(ne.descriptor)
       /\ ne.adapter \in {PipelineError(ne.descriptor),
                           PromiseForError(ne.descriptor)}

C27_Witness ==
    /\ ne.pc = "thrown"
    /\ ne.adapter.name = "PipelineError"
    /\ ne.descriptor.name = "HTTPError"
    /\ ne.adapter.message = "Not Found"
    /\ "stepInfo" \in DOMAIN ne.adapter.errorContext

C29_EventuallySettles ==
    \A s \in 1..MaxStages :
        /\ (s \in StageIds) ~> (s \in StageIds /\ Settled(s))
        /\ (s \in StageIds /\ awaiters[s] > 0)
              ~> (s \in StageIds /\ awaiters[s] = 0 /\ execResults[s] # {})

C29_Witness ==
    \E s \in StageIds :
        /\ Depth(s) = 2
        /\ fnCalls[s] = 1
        /\ fnCalls[Parent(s)] = 1
        /\ execCalls = MaxExec
        /\ awaiters[s] = 0
        /\ execResults[s] # {}
        /\ execResults[1] # {}

\* what the promise of stage s settles to when its chain runs alone, from
\* the chain's own producer outcome and step functions (pending as long as
\* the chain's own producer or one of its own called functions is)
RECURSIVE AloneResult(_)
AloneResult(s) ==
    IF IsRoot(s)
    THEN IF awaited[s].kind = "none"
         THEN Pending
         ELSE wrapInitialAfterAwait(stages[s].context, awaited[s])
    ELSE LET p == AloneResult(Parent(s))
         IN IF p.state = "pending"
            THEN p
            ELSE LET r == AfterAwait(stages[s], p)
                 IN IF r.do = "settle" THEN r.promise
                    ELSE IF fnOf[s] = "notCalled"
                            \/ ApplyFn(fnOf[s], r.arg).outcome.kind = "none"
                    THEN Pending
                    ELSE AfterFn(stages[s], ApplyFn(fnOf[s], r.arg).outcome)

\* the step function of s is called when its chain runs alone
AloneCalled(s) ==
    /\ ~IsRoot(s)
    /\ AloneResult(Parent(s)).state # "pending"
    /\ AfterAwait(stages[s], AloneResult(Parent(s))).do = "call"

\* C30: chains (and a promiseFor call) whose steps are interleaved in any
\* order do not affect each other: every stage settles to the pair its own
\* chain yields alone, with the same stepInfo, its function is called
\* exactly when it is called alone, and promiseFor returns the pair its
\* own arguments and producer yield.
C30_Independent ==
    /\ \A s \in StageIds :
          Settled(s)
          => /\ promise[s] = AloneResult(s)
             /\ ~IsRoot(s) => (fnCalls[s] = 1) = AloneCalled(s)
    /\ pf.pc = "returned"
          => pf.result = PfPairOf([postProcessor |-> pf.postProcessor,
                                   context |-> pf.context], pf.awaited)

C30_Witness ==
    /\ Len(stages) = 4
    /\ Roots = {1, 2}
    /\ Parent(3) = 2
    /\ Parent(4) = 1
    /\ awaited[1] = Reject(NewError("Initial error"))
    /\ awaited[2] = Resolve("1")
    /\ fnCalls[3] = 1
    /\ fnCalls[4] = 0
    /\ Settled(3)
    /\ Settled(4)
    /\ promise[4].pair[2].stepInfo.index = -1
    /\ pf.pc = "returned"

\* C31: chaining a transform or pipe step on a stage S leaves S unchanged:
\* no step changes S's record (context, step list), a chaining call changes
\* nothing of S at all, execute() on S returns the pair S's own lineage
\* yields whatever was chained on it, and every step chained on S has index
\* |S.steps| and S's context as pipelineContext.
C31_ChainingLeavesStage ==
    /\ [](\A s \in StageIds :
            /\ \A r \in execResults[s] : r = AloneResult(s)
            /\ ~IsRoot(s)
                  => /\ stages[s].stepIndex = Len(stages[Parent(s)].steps)
                     /\ stepDetailsOf(stages[s]).pipelineContext
                            = stages[Parent(s)].context)
    /\ [][\A s \in StageIds :
             /\ stages'[s] = stages[s]
             /\ Len(stages') > Len(stages)
                   => /\ promise'[s] = promise[s]
                      /\ pc'[s] = pc[s]
                      /\ fnCalls'[s] = fnCalls[s]
                      /\ execResults'[s] = execResults[s]]_vars

C31_Witness ==
    /\ Len(stages) = 3
    /\ Parent(2) = 1
    /\ Parent(3) = 1
    /\ stages[2].type # stages[3].type
    /\ stages[1].context = "Main pipeline"
    /\ execResults[1] = {Fulfilled(<<"1", NoError>>)}
    /\ Failed(2)
    /\ Failed(3)
    /\ fnCalls[2] = 1
    /\ fnCalls[3] = 1
    /\ promise[2].pair[2].stepInfo.index = 0
    /\ promise[3].pair[2].stepInfo.index = 0
    /\ promise[2].pair[2].stepInfo.pipelineContext = "Main pipeline"
    /\ promise[3].pair[2].stepInfo.pipelineContext = "Main pipeline"

\* the kinds of the steps chained from the root down to s, in order
RECURSIVE LineageSteps(_)
LineageSteps(s) ==
    IF IsRoot(s) THEN <<>>
    ELSE Append(LineageSteps(Parent(s)), stages[s].type)

\* C32: the k-th step chained in a lineage (0-based) has step index k,
\* whatever the kinds of the steps before it: each stage's step list is the
\* list of the chaining calls of its lineage, the index of its step is one
\* less than that list's length, indices grow strictly along the lineage,
\* and a failure of the step reports that index.
C32_StepIndex ==
    \A s \in StageIds :
        /\ stages[s].steps = LineageSteps(s)
        /\ Len(stages[s].steps) = Depth(s)
        /\ stages[s].stepIndex = Depth(s) - 1
        /\ \A a \in StageIds :
              IsAncestor(a, s) => stages[a].stepIndex < stages[s].stepIndex
        /\ (Failed(s) /\ fnCalls[s] = 1 /\ ~IsRoot(s))
              => promise[s].pair[2].stepInfo.index = Depth(s) - 1

C32_Witness ==
    \E s \in StageIds :
        /\ Depth(s) = 3
        /\ stages[s].steps = <<"transform", "pipe", "transform">>
        /\ fnCalls[s] = 1
        /\ Failed(s)
        /\ promise[s].pair[2].stepInfo.index = 2

\* C33: the stage a step returns has the step's final context (the
\* explicit stepContext, or the default) as its own context, so a failure
\* of a step at index i >= 1 reports the context of step i-1 as
\* stepInfo.pipelineContext, and a failure of step 0 the pipeline's context.
C33_StageContext ==
    \A s \in StageIds :
        ~IsRoot(s)
        => /\ stages[s].context = StepContextOf(s)
           /\ (Failed(s) /\ ~Failed(Parent(s)))
                 => promise[s].pair[2].stepInfo.pipelineContext
                       = (IF IsRoot(Parent(s))
                          THEN PipelineContextOf(Parent(s))
                          ELSE StepContextOf(Parent(s)))

C33_Witness ==
    /\ Len(stages) = 3
    /\ Parent(2) = 1
    /\ Parent(3) = 2
    /\ stages[2].contextArg = "Custom step"
    /\ stages[3].contextArg = Undefined
    /\ fnCalls[3] = 1
    /\ Failed(3)
    /\ promise[3].pair[2].stepInfo.index = 1
    /\ promise[3].pair[2].stepInfo.pipelineContext = "Custom step"
    /\ promise[3].pair[2].context = "Pipe step 1"

\* C34: the function of a transform step is never called with null or
\* undefined: when the pair of the stage before it carries no error and an
\* empty value, the transform's stage settles to (null, d) with d.context
\* this step's context and d.stepInfo {index: i, type: 'transform'}, and the
\* function is not called.
C34_TransformInputGuard ==
    \A s \in StageIds :
        (/\ ~IsRoot(s)
         /\ stages[s].type = "transform"
         /\ promise[Parent(s)].state = "fulfilled"
         /\ promise[Parent(s)].pair[2] = NoError
         /\ ~Populated(promise[Parent(s)].pair[1]))
        => /\ fnCalls[s] = 0
           /\ Settled(s)
                 => /\ promise[s].state = "fulfilled"
                    /\ promise[s].pair[1] = Null
                    /\ promise[s].pair[2] # NoError
                    /\ promise[s].pair[2].context = StepContextOf(s)
                    /\ "stepInfo" \in DOMAIN promise[s].pair[2]
                    /\ promise[s].pair[2].stepInfo.index = Depth(s) - 1
                    /\ promise[s].pair[2].stepInfo.type = "transform"

\* C35: a pipe step whose function's promise resolves to null or undefined
\* settles as success: the pair is (that value, null), no error descriptor
\* is created at the step, and execute() returns that pair.
C35_PipeEmptyResult ==
    \A s \in StageIds :
        (/\ ~IsRoot(s)
         /\ stages[s].type = "pipe"
         /\ awaited[s].kind = "resolve"
         /\ ~Populated(awaited[s].val))
        => /\ promise[s] = Fulfilled(<<awaited[s].val, NoError>>)
           /\ ~Failed(s)
           /\ \A r \in execResults[s] : r.pair[2] = NoError

C35_Witness ==
    /\ Len(stages) = 3
    /\ Parent(2) = 1
    /\ Parent(3) = 1
    /\ stages[2].type = "pipe"
    /\ stages[3].type = "pipe"
    /\ awaited[2] = Resolve(Null)
    /\ awaited[3] = Resolve(Undefined)
    /\ execResults[2] = {Fulfilled(<<Null, NoError>>)}
    /\ execResults[3] = {Fulfilled(<<Undefined, NoError>>)}

\* the post-processor and the context the call's arguments stand for
PfDispatched ==
    CASE pf.second.kind = "function" ->
           [postProcessor |-> pf.second.fn,
            context |-> IF pf.legacyContext = Undefined
                        THEN "Error occurred during promise resolution"
                        ELSE pf.legacyContext]
      [] pf.second.kind = "options" ->
           [postProcessor |-> pf.second.postProcessor,
            context |-> IF pf.second.context = Undefined
                        THEN "Error occurred during promise resolution"
                        ELSE pf.second.context]
      [] pf.second.kind = "absent" ->
           [postProcessor |-> Undefined,
            context |-> IF pf.legacyContext = Undefined
                        THEN "Error occurred during promise resolution"
                        ELSE pf.legacyContext]

\* C36: promiseFor dispatches on its second argument: a function is the
\* legacy post-processor and the third argument its context; an options
\* record supplies postProcessor and context and a third argument beside
\* it is ignored; with no second argument the third is still the context.
\* The call uses that post-processor and that context, and returns the
\* pair they give.
C36_Dispatch ==
    pf.pc # "idle"
    => /\ pf.postProcessor = PfDispatched.postProcessor
       /\ pf.context = PfDispatched.context
       /\ pf.pc = "returned"
             => /\ pf.result = PfPairOf(PfDispatched, pf.awaited)
                /\ pf.result[2] # NoError
                      => pf.result[2].context = PfDispatched.context

C36_Witness ==
    /\ pf.pc = "returned"
    /\ pf.second = OptionsArg("inc", "Custom context")
    /\ pf.legacyContext = "Legacy context"
    /\ pf.awaited = Reject(NewError("Test error"))
    /\ pf.result[2].context = "Custom context"

\* C37: normalizeError is total and pure: for every raised value it
\* returns a descriptor (with the context it was given) and does not
\* throw, and the call changes neither the raised value nor any other
\* state.
C37_TotalAndPure ==
    /\ [](ne.pc # "raised"
            => /\ ne.pc # "threw"
               /\ ne.descriptor # NoDescriptor
               /\ ne.descriptor.context = ne.context)
    /\ [][/\ ne'.raised = ne.raised
          /\ ne'.context = ne.context
          /\ ne'.stepDetails = ne.stepDetails
          /\ UNCHANGED <<pipeVars, pf>>]_vars

\* the function of the step that created k was called and its promise
\* never settles
Hung(k) == pc[k] = "awaitFn" /\ fnOf[k] = "never"

\* C38: when the function of step k never settles, the promise of stage
\* k and of every stage derived from it never settles, execute() on them
\* never returns and no function of a later step is called, while
\* execute() on every stage before k returns that stage's own pair.
C38_HangBlocksDownstream ==
    /\ [](\A k \in StageIds :
            Hung(k)
            => /\ ~Settled(k)
               /\ execResults[k] = {}
               /\ \A t \in StageIds :
                     IsAncestor(k, t)
                     => /\ ~Settled(t)
                        /\ fnCalls[t] = 0
                        /\ execResults[t] = {})
    /\ \A a \in 1..MaxStages :
          (/\ a \in StageIds
           /\ awaiters[a] > 0
           /\ \E k \in StageIds : IsAncestor(a, k) /\ Hung(k))
          ~> (/\ a \in StageIds
              /\ awaiters[a] = 0
              /\ execResults[a] = {AloneResult(a)})

C38_Witness ==
    /\ Len(stages) = 3
    /\ Parent(2) = 1
    /\ Parent(3) = 2
    /\ Hung(2)
    /\ pc[3] = "awaitPromise"
    /\ awaiters[3] = 1
    /\ awaiters[1] = 0
    /\ execResults[1] = {Fulfilled(<<"1", NoError>>)}

====
